---- MODULE Spec2Model ----
(***************************************************************************)
(* TalentScout AI hiring assistant: the conversation state machine of      *)
(* src/main.py (TalentScoutApp.process_conversation and its phase          *)
(* handlers) over the SQLite store of src/db_manager.py.                   *)
(*                                                                         *)
(* A text is a sequence of strings.  A text typed by the candidate is the  *)
(* sequence of its characters, so that the keyword tests of the handlers   *)
(* (lower-casing, substring search) are computed as the code computes      *)
(* them.  A text built by the program is the sequence of the fragments     *)
(* that its f-string or += concatenates.                                   *)
(***************************************************************************)
EXTENDS Integers, Sequences, FiniteSets, TLC

VARIABLES
    candidates,           \* table candidates            (db_manager.py 22-35)
    conversations,        \* table conversations         (db_manager.py 37-49)
    chat_messages,        \* table chat_messages         (db_manager.py 51-59)
    interview_qa,         \* table interview_qa          (db_manager.py 61-72)
    candidate_analysis,   \* table candidate_analysis    (db_manager.py 74-92)
    conversation_memory,  \* table conversation_memory   (db_manager.py 95-104)
    sqlite_sequence,      \* AUTOINCREMENT counters of the tables that use ids
    last,                 \* the last call made on the application and its result
    deviations,           \* how many off-script choices the run has made so far
    clock,                \* the second CURRENT_TIMESTAMP gives
    in_flight             \* the calls that have read the store and not yet written

vars == <<candidates, conversations, chat_messages, interview_qa,
          candidate_analysis, conversation_memory, sqlite_sequence, last,
          deviations, clock, in_flight>>

(***************************************************************************)
(* Bounds of the model.                                                    *)
(***************************************************************************)
\* A run makes at most this many off-script choices: an input other than
\* DefaultInput, or a generator result other than the first successful one.
MaxDeviations == 2
\* At most this many intake forms are submitted (rows of candidates).
MaxIntakes == 2
\* process_conversation is not called once the tables chat_messages holds
\* this many rows (a full interview writes 23).
MaxMessages == 27

Emails == {"ann@example.com"}

FullName(email) == IF email = "bob@example.com" THEN "Bob" ELSE "Ann"

(***************************************************************************)
(* Python values.                                                          *)
(***************************************************************************)
\* None, where an integer is expected (question_number, candidate_id).
NoneInt == 0 - 1
\* None, where a string is expected (state, user_name).
NoneStr == "None"

\* utils.py ConversationStates
INTERVIEW_PREP == "INTERVIEW_PREP"
CONVERSATIONAL_INTRO == "CONVERSATIONAL_INTRO"
DYNAMIC_INTERVIEW == "DYNAMIC_INTERVIEW"
REAL_TIME_ANALYSIS == "REAL_TIME_ANALYSIS"
POST_INTERVIEW_QA == "POST_INTERVIEW_QA"
CONVERSATION_TERMINATED == "CONVERSATION_TERMINATED"

UpperCase == <<"A","B","C","D","E","F","G","H","I","J","K","L","M",
               "N","O","P","Q","R","S","T","U","V","W","X","Y","Z">>
LowerCase == <<"a","b","c","d","e","f","g","h","i","j","k","l","m",
               "n","o","p","q","r","s","t","u","v","w","x","y","z">>

\* str.lower() on one character
lower_char(c) ==
    IF \E i \in 1..Len(UpperCase) : UpperCase[i] = c
    THEN LowerCase[CHOOSE i \in 1..Len(UpperCase) : UpperCase[i] = c]
    ELSE c

\* A lower() that leaves upper-case letters as they are: C11 does not
\* hold of it.
lower_identity(text) == text

\* str.lower()
lower(text) == [i \in 1..Len(text) |-> lower_char(text[i])]

\* keyword in text (substring test)
str_in(keyword, text) ==
    \E i \in 1..(Len(text) - Len(keyword) + 1) :
        SubSeq(text, i, i + Len(keyword) - 1) = keyword

\* any(keyword in user_input.lower() for keyword in keywords)
any_keyword_in(keywords, user_input) ==
    \E k \in 1..Len(keywords) : str_in(keywords[k], lower(user_input))

(***************************************************************************)
(* The inputs a candidate types.                                           *)
(***************************************************************************)
Goodbye == <<"g","o","o","d","b","y","e">>
Hello == <<"h","e","l","l","o">>

Inputs == {Goodbye, Hello}
DefaultInput == Goodbye

(***************************************************************************)
(* The store (src/db_manager.py).  A table is the sequence of its rows in  *)
(* rowid order; the operations below take the database as a record of its  *)
(* tables and give the database after the call.  A store call opens its    *)
(* own connection and commits on its own.  writes_left is the number of    *)
(* writes of the call in progress that succeed before one raises           *)
(* sqlite3.OperationalError (None: no write fails); raised holds the       *)
(* exception once it is raised, and no statement after the raise runs.     *)
(***************************************************************************)
DB ==
    [candidates |-> candidates, conversations |-> conversations,
     chat_messages |-> chat_messages, interview_qa |-> interview_qa,
     candidate_analysis |-> candidate_analysis,
     conversation_memory |-> conversation_memory,
     sqlite_sequence |-> sqlite_sequence, clock |-> clock,
     writes_left |-> NoneInt, raised |-> ""]

\* the write of a store method that has no try/except: it is not reached
\* after a raise, raises when the store fails, and commits otherwise
write_fails(db) == db.raised # "" \/ db.writes_left = 0
store_write(db, written) ==
    IF db.raised # "" THEN db
    ELSE IF db.writes_left = 0 THEN [db EXCEPT !.raised = "OperationalError"]
    ELSE [written EXCEPT !.writes_left = IF @ = NoneInt THEN @ ELSE @ - 1]

\* SELECT ... WHERE email = ?
rows_of(table, email) == SelectSeq(table, LAMBDA r : r.email = email)

\* A DELETE without its WHERE clause: C19 does not hold of it.
delete_every_row(table, email) == <<>>

\* DELETE ... WHERE email = ?
delete_of(table, email) == SelectSeq(table, LAMBDA r : r.email # email)

\* get_conversation_state: the rows fetchone() chooses from; <<>> is None,
\* otherwise the first row is the state record.
get_conversation_state(db, email) == rows_of(db.conversations, email)

\* get_candidate_data: <<>> is None, otherwise the first row is returned.
get_candidate_data(db, email) == rows_of(db.candidates, email)

\* get_candidate_analysis: <<>> is None, otherwise the first row is returned.
get_candidate_analysis(db, email) == rows_of(db.candidate_analysis, email)

\* save_message: INSERT INTO chat_messages; the column timestamp takes its
\* default CURRENT_TIMESTAMP, which has a resolution of one second
save_message(db, email, message_type, content) ==
    store_write(db, [db EXCEPT !.chat_messages =
        Append(@, [email |-> email, message_type |-> message_type,
                   message_content |-> content, timestamp |-> db.clock])])

\* the sequence without its i-th element
remove_at(rows, i) == SubSeq(rows, 1, i - 1) \o SubSeq(rows, i + 1, Len(rows))

\* ORDER BY timestamp ASC (descending = FALSE) or DESC (descending = TRUE)
\* with no other sort key: SQL leaves the order of rows with equal
\* timestamps open, so the operator gives the set of the orders the query
\* can return.
RECURSIVE order_by_timestamp(_, _)
order_by_timestamp(rows, descending) ==
    IF rows = <<>> THEN {<<>>}
    ELSE LET first ==
                {i \in 1..Len(rows) :
                    \A j \in 1..Len(rows) :
                        IF descending THEN rows[i].timestamp >= rows[j].timestamp
                        ELSE rows[i].timestamp <= rows[j].timestamp}
         IN  UNION {{<<rows[i]>> \o rest :
                        rest \in order_by_timestamp(remove_at(rows, i), descending)} :
                    i \in first}

\* get_chat_history of one candidate: the results the call can return
get_chat_history(db, email) ==
    {[i \in 1..Len(rows) |->
        [type |-> rows[i].message_type, content |-> rows[i].message_content,
         timestamp |-> rows[i].timestamp]] :
     rows \in order_by_timestamp(rows_of(db.chat_messages, email), FALSE)}

\* save_conversation_exchange: two rows that carry one timestamp.  The
\* timestamp is modelled by the number of exchanges stored before this one.
save_conversation_exchange(db, email, user_input, bot_response) ==
    LET timestamp == Len(db.conversation_memory) \div 2
    IN  store_write(db, [db EXCEPT !.conversation_memory =
            @ \o <<[email |-> email, role |-> "user", content |-> user_input,
                    timestamp |-> timestamp],
                   [email |-> email, role |-> "assistant",
                    content |-> bot_response, timestamp |-> timestamp]>>])

\* a sequence back to front
reversed(rows) == [i \in 1..Len(rows) |-> rows[Len(rows) + 1 - i]]

\* get_conversation_context: ORDER BY timestamp DESC LIMIT last_n, then
\* reversed; the results the call can return
get_conversation_context(db, email, last_n) ==
    {reversed([i \in 1..(IF Len(rows) < last_n THEN Len(rows) ELSE last_n) |->
                [role |-> rows[i].role, content |-> rows[i].content,
                 timestamp |-> rows[i].timestamp]]) :
     rows \in order_by_timestamp(rows_of(db.conversation_memory, email), TRUE)}

\* get_conversation_exchange_count: COUNT(*) WHERE email = ? AND role = 'user'
get_conversation_exchange_count(db, email) ==
    Len(SelectSeq(db.conversation_memory,
                  LAMBDA r : r.email = email /\ r.role = "user"))

\* A store that files the answer under the text of the answer itself
\* instead of the question text it is handed.
save_interview_qa_under_answer(db, email, question_number, question_text, user_answer, feedback_score, feedback_text) ==
    store_write(db, [db EXCEPT !.interview_qa =
        Append(@, [email |-> email, question_number |-> question_number,
                   question |-> user_answer, answer |-> user_answer,
                   feedback_score |-> feedback_score,
                   feedback_text |-> feedback_text])])

\* save_interview_qa_with_feedback: INSERT INTO interview_qa
save_interview_qa_with_feedback(db, email, question_number, question_text, user_answer, feedback_score, feedback_text) ==
    store_write(db, [db EXCEPT !.interview_qa =
        Append(@, [email |-> email, question_number |-> question_number,
                   question |-> question_text, answer |-> user_answer,
                   feedback_score |-> feedback_score,
                   feedback_text |-> feedback_text])])

\* ORDER BY question_number ASC, rows of equal number in rowid order:
\* insertion of one row into a sequence already in that order.
RECURSIVE insert_by_number(_, _)
insert_by_number(sorted, row) ==
    IF sorted = <<>> THEN <<row>>
    ELSE IF Head(sorted).question_number <= row.question_number
         THEN <<Head(sorted)>> \o insert_by_number(Tail(sorted), row)
         ELSE <<row>> \o sorted

RECURSIVE order_by_number(_)
order_by_number(rows) ==
    IF rows = <<>> THEN <<>>
    ELSE insert_by_number(order_by_number(SubSeq(rows, 1, Len(rows) - 1)),
                          rows[Len(rows)])

\* get_interview_qa_with_feedback
get_interview_qa_with_feedback(db, email) ==
    order_by_number(rows_of(db.interview_qa, email))

\* "if existing:" of create_or_update_conversation
\* A store whose existence test never finds the record, so that every call
\* of create_or_update_conversation takes the INSERT: C5 does not hold of it.
conversation_exists_never(db, email) == FALSE

conversation_exists(db, email) == get_conversation_state(db, email) # <<>>

\* An UPDATE that sets current_state without the test "if state:", so that
\* a call that passes no state stores None: C1 does not hold of it.
update_conversation_unconditional(row, state, user_name, candidate_id, question_number) ==
    [row EXCEPT
        !.current_state = state,
        !.user_name = IF user_name # NoneStr /\ user_name # ""
                      THEN user_name ELSE @,
        !.candidate_id = IF candidate_id # NoneInt /\ candidate_id # 0
                         THEN candidate_id ELSE @,
        !.current_question_number =
            IF question_number # NoneInt THEN question_number ELSE @]

\* The UPDATE of create_or_update_conversation: a field is set when its
\* argument passes the test the code makes on it.
update_conversation(row, state, user_name, candidate_id, question_number) ==
    [row EXCEPT
        !.current_state = IF state # NoneStr /\ state # "" THEN state ELSE @,
        !.user_name = IF user_name # NoneStr /\ user_name # ""
                      THEN user_name ELSE @,
        !.candidate_id = IF candidate_id # NoneInt /\ candidate_id # 0
                         THEN candidate_id ELSE @,
        !.current_question_number =
            IF question_number # NoneInt THEN question_number ELSE @]

\* The row the INSERT of create_or_update_conversation writes.
inserted_conversation(db, email, state, user_name, candidate_id, question_number) ==
    [id |-> db.sqlite_sequence.conversations + 1,
     email |-> email,
     current_state |-> IF state # NoneStr /\ state # "" THEN state
                       ELSE INTERVIEW_PREP,
     user_name |-> user_name,
     candidate_id |-> candidate_id,
     current_question_number |->
        IF question_number # NoneInt /\ question_number # 0
        THEN question_number ELSE 0]

\* create_or_update_conversation.  The result is the database after the
\* call and the exception the call raised ("" when it raised none): the
\* column email is UNIQUE, so an INSERT for an email that has a row raises
\* sqlite3.IntegrityError and writes nothing.
create_or_update_conversation(db, email, state, user_name, candidate_id, question_number) ==
    IF write_fails(db)
    THEN [db |-> store_write(db, db), exc |-> "OperationalError"]
    ELSE IF conversation_exists(db, email)
    THEN [db |-> [db EXCEPT !.writes_left = IF @ = NoneInt THEN @ ELSE @ - 1,
                            !.conversations =
                    [i \in 1..Len(@) |->
                        IF @[i].email = email
                        THEN update_conversation(@[i], state, user_name,
                                                 candidate_id, question_number)
                        ELSE @[i]]],
          exc |-> ""]
    ELSE IF rows_of(db.conversations, email) # <<>>
         THEN [db |-> db, exc |-> "IntegrityError"]
         ELSE [db |-> [db EXCEPT
                        !.writes_left = IF @ = NoneInt THEN @ ELSE @ - 1,
                        !.conversations =
                            Append(@, inserted_conversation(db, email, state,
                                user_name, candidate_id, question_number)),
                        !.sqlite_sequence.conversations = @ + 1],
               exc |-> ""]

\* save_candidate_to_db: INSERT INTO candidates; the new row's id is returned
save_candidate_to_db(db, candidate_data) ==
    [db EXCEPT
        !.candidates =
            Append(@, [id |-> db.sqlite_sequence.candidates + 1,
                       email |-> candidate_data.email,
                       full_name |-> candidate_data.full_name]),
        !.sqlite_sequence.candidates = @ + 1]

\* "if existing:" of save_comprehensive_analysis
\* A store whose existence test never finds the analysis, so that every
\* save appends a row: C6 does not hold of it.
analysis_exists_never(db, email) == FALSE

analysis_exists(db, email) == rows_of(db.candidate_analysis, email) # <<>>

\* The write of save_comprehensive_analysis, for analysis_data a dict:
\* UPDATE every row of the email when the SELECT found one, INSERT otherwise.
write_comprehensive_analysis(db, existing, candidate_id, email, analysis_data) ==
    IF existing
    THEN [db EXCEPT !.candidate_analysis =
            [i \in 1..Len(@) |->
                IF @[i].email = email
                THEN [id |-> @[i].id, candidate_id |-> @[i].candidate_id,
                      email |-> email, data |-> analysis_data]
                ELSE @[i]]]
    ELSE [db EXCEPT
            !.candidate_analysis =
                Append(@, [id |-> db.sqlite_sequence.candidate_analysis + 1,
                           candidate_id |-> candidate_id, email |-> email,
                           data |-> analysis_data]),
            !.sqlite_sequence.candidate_analysis = @ + 1]

\* save_comprehensive_analysis: the SELECT and then the write
save_comprehensive_analysis(db, candidate_id, email, analysis_data) ==
    write_comprehensive_analysis(db, analysis_exists(db, email), candidate_id,
                                 email, analysis_data)

\* get_completed_candidates: candidates JOIN conversations ON email
get_completed_candidates(db) ==
    SelectSeq(db.candidates,
        LAMBDA c : \E i \in 1..Len(db.conversations) :
            /\ db.conversations[i].email = c.email
            /\ db.conversations[i].current_state \in
                {REAL_TIME_ANALYSIS, POST_INTERVIEW_QA, CONVERSATION_TERMINATED})

\* clear_conversation: DELETE from four tables
clear_conversation(db, email) ==
    [db EXCEPT
        !.conversations = delete_of(@, email),
        !.chat_messages = delete_of(@, email),
        !.interview_qa = delete_of(@, email),
        !.conversation_memory = delete_of(@, email)]

(***************************************************************************)
(* The content generator (the Groq client).  A call of a text intent       *)
(* gives a text or raises; the JSON intents (feedback, analysis) give what *)
(* json.loads returns, a dict or another JSON value, or raise.  Scores are *)
(* counted in tenths: 75 is 7.5.                                           *)
(***************************************************************************)
GenFail == [kind |-> "fail", text |-> <<>>]

RapportResults == {[kind |-> "ok", text |-> <<"llm: rapport reply">>], GenFail}
FirstQuestionResults == {[kind |-> "ok", text |-> <<"llm: first question">>], GenFail}
NextQuestionResults == {[kind |-> "ok", text |-> <<"llm: next question">>], GenFail}
ContextResults == {[kind |-> "ok", text |-> <<"llm: context answer">>], GenFail}

LLMFeedback == [kind |-> "dict", score |-> 90, encouraging_feedback |-> "llm: feedback"]
FeedbackFail == [kind |-> "fail", score |-> 0, encouraging_feedback |-> ""]
FeedbackNonDict == [kind |-> "nondict", score |-> 0, encouraging_feedback |-> ""]
FeedbackResults == {LLMFeedback, FeedbackFail, FeedbackNonDict}

AnalysisA ==
    [overall_score |-> 82, technical_score |-> 85, communication_score |-> 78,
     problem_solving_score |-> 80, key_strengths |-> <<"strength A">>,
     areas_for_growth |-> <<"growth A">>,
     specific_recommendations |-> <<"advice A">>,
     hiring_recommendation |-> "Recommend", summary_feedback |-> "summary A"]
AnalysisB ==
    [overall_score |-> 55, technical_score |-> 50, communication_score |-> 60,
     problem_solving_score |-> 58, key_strengths |-> <<"strength B">>,
     areas_for_growth |-> <<>>,
     specific_recommendations |-> <<"advice B">>,
     hiring_recommendation |-> "Consider", summary_feedback |-> "summary B"]
AnalysisResults ==
    {[kind |-> "dict", data |-> AnalysisA], [kind |-> "dict", data |-> AnalysisB],
     [kind |-> "fail", data |-> AnalysisA], [kind |-> "nondict", data |-> AnalysisA]}

\* The results of the generator calls of one turn, one per intent.
DefaultGen ==
    [rapport |-> [kind |-> "ok", text |-> <<"llm: rapport reply">>],
     first_question |-> [kind |-> "ok", text |-> <<"llm: first question">>],
     feedback |-> LLMFeedback,
     next_question |-> [kind |-> "ok", text |-> <<"llm: next question">>],
     analysis |-> [kind |-> "dict", data |-> AnalysisA],
     context |-> [kind |-> "ok", text |-> <<"llm: context answer">>]]

GenIntents == {"rapport", "first_question", "feedback", "next_question", "analysis", "context"}

GenResults ==
    [rapport : RapportResults, first_question : FirstQuestionResults,
     feedback : FeedbackResults, next_question : NextQuestionResults,
     analysis : AnalysisResults, context : ContextResults]

\* Every generator call of the turn raises.
AllFailGen ==
    [rapport |-> GenFail, first_question |-> GenFail, feedback |-> FeedbackFail,
     next_question |-> GenFail, analysis |-> [kind |-> "fail", data |-> AnalysisA],
     context |-> GenFail]

(***************************************************************************)
(* Generation helpers of src/main.py and src/analysis_engine.py: the       *)
(* try/except around the generator call, with its fallback literal.        *)
(***************************************************************************)
\* _generate_conversational_response
_generate_conversational_response(result) ==
    IF result.kind = "ok" THEN result.text
    ELSE <<"That's interesting! Tell me more about your experience and what you're currently working on.">>

\* _generate_first_technical_question; main_tech is tech_stack[0] or 'programming'
_generate_first_technical_question(result, main_tech) ==
    IF result.kind = "ok" THEN result.text
    ELSE <<"Let's start with your experience in ", main_tech,
           ". Can you walk me through a project where you used ", main_tech,
           " and what you learned from it?">>

\* _generate_next_dynamic_question
_generate_next_dynamic_question(result) ==
    IF result.kind = "ok" THEN result.text
    ELSE <<"That's a good foundation! Let's explore another area. Can you tell me about a technical challenge you faced recently and how you solved it?">>

\* _generate_context_based_response
_generate_context_based_response(result) ==
    IF result.kind = "ok" THEN result.text
    ELSE <<"I apologize, but I'm having trouble processing your question right now. Our team will be in touch with you soon regarding next steps.">>

\* analyze_answer_realtime: the parsed JSON, or the fallback dict when the
\* call or json.loads raises.
analyze_answer_realtime(result) ==
    IF result.kind = "fail"
    THEN [kind |-> "dict", score |-> 75,
          encouraging_feedback |-> "Nice answer! You gave good technical details."]
    ELSE result

\* utils.py ScoreCalculator.calculate_overall_score.  The sub-scores are
\* given in tenths, so the weighted sum 0.4*t + 0.3*c + 0.3*p is
\* (4t + 3c + 3p) hundredths.  round(x, 1) gives the nearest tenth; the sum
\* is computed in binary floating point, so when the exact sum lies half
\* way between two tenths the float is a little above or a little below
\* the tie and either neighbour can come out: the operator gives the set
\* of the results the call can return.
weighted_hundredths(technical_score, communication_score, problem_solving_score) ==
    4 * technical_score + 3 * communication_score + 3 * problem_solving_score

\* A rounding that cuts the second decimal off: C15 does not hold of it.
round_1_truncating(hundredths) == {hundredths \div 10}

\* round(x, 1), on hundredths, to tenths
round_1(hundredths) ==
    IF hundredths % 10 < 5 THEN {hundredths \div 10}
    ELSE IF hundredths % 10 > 5 THEN {(hundredths \div 10) + 1}
    ELSE {hundredths \div 10, (hundredths \div 10) + 1}

calculate_overall_score(technical_score, communication_score, problem_solving_score) ==
    round_1(weighted_hundredths(technical_score, communication_score, problem_solving_score))

\* A tier test whose first boundary is exclusive: C16 does not hold of it.
get_performance_level_above(score) ==
    IF score > 80 THEN "Excellent"
    ELSE IF score >= 60 THEN "Good"
    ELSE IF score >= 40 THEN "Average"
    ELSE "Needs Improvement"

\* utils.py ScoreCalculator.get_performance_level, on tenths
get_performance_level(score) ==
    IF score >= 80 THEN "Excellent"
    ELSE IF score >= 60 THEN "Good"
    ELSE IF score >= 40 THEN "Average"
    ELSE "Needs Improvement"

Digits == <<"0", "1", "2", "3", "4", "5", "6", "7", "8", "9">>

\* str() of a float given in tenths, as the f-strings format a score
format_score(tenths) ==
    (IF tenths >= 100 THEN <<Digits[(tenths \div 100) + 1]>> ELSE <<>>)
    \o <<Digits[((tenths \div 10) % 10) + 1], ".", Digits[(tenths % 10) + 1]>>

\* json.dumps of a list of strings, and json.loads of the result
json_dumps(items) == <<"[">> \o items \o <<"]">>
json_loads(text) == SubSeq(text, 2, Len(text) - 1)

(***************************************************************************)
(* The conversation controller (src/main.py).  A call gives the database   *)
(* after it, the text it returns, the exception that ended it ("" when it  *)
(* returned) and the generator intents it called.  Every store call        *)
(* commits on its own, so a call that raises keeps the writes made before  *)
(* the raise.                                                              *)
(***************************************************************************)
Return(db, ret, calls) == [db |-> db, ret |-> ret, exc |-> "", calls |-> calls]
Raise(db, exc, calls) == [db |-> db, ret |-> <<>>, exc |-> exc, calls |-> calls]

\* An intro that ends one exchange later: C10 does not hold of it.
intro_complete_late(exchange_count) == exchange_count >= 4

\* "if exchange_count >= 3:" of _handle_conversational_intro
intro_complete(exchange_count) == exchange_count >= 3

\* "if previous_qa or current_q_num > 1:" of _handle_dynamic_interview
is_answer_turn(previous_qa, current_q_num) == previous_qa # <<>> \/ current_q_num > 1

\* A quota test that passes one answer later: C2 does not hold of it.
quota_reached_late(answered) == answered >= 6

\* "if len(previous_qa) >= 5:" of _handle_dynamic_interview
quota_reached(answered) == answered >= 5

\* the keyword lists of _handle_real_time_analysis and _handle_post_interview_qa
continue_keywords ==
    << <<"y","e","s">>, <<"c","o","n","t","i","n","u","e">>, <<"m","o","r","e">>,
       <<"t","e","l","l"," ","m","e"," ","m","o","r","e">>,
       <<"e","x","p","l","a","i","n">> >>
end_keywords ==
    << <<"n","o">>, <<"d","o","n","e">>, <<"f","i","n","i","s","h">>,
       <<"g","o","o","d","b","y","e">>, <<"b","y","e">>,
       <<"t","h","a","n","k","s">> >>
\* A keyword list of _handle_post_interview_qa that lacks 'goodbye' and
\* 'bye': C4 does not hold of it.
ending_keywords_without_goodbye ==
    << <<"t","h","a","n","k"," ","y","o","u">>, <<"t","h","a","n","k","s">>,
       <<"e","x","i","t">>, <<"q","u","i","t">> >>

ending_keywords ==
    << <<"t","h","a","n","k"," ","y","o","u">>, <<"g","o","o","d","b","y","e">>,
       <<"b","y","e">>, <<"t","h","a","n","k","s">>, <<"e","n","d">>,
       <<"f","i","n","i","s","h">>, <<"d","o","n","e">>, <<"e","x","i","t">>,
       <<"q","u","i","t">> >>

\* the response of _handle_terminated_state
TerminatedResponse == <<"This conversation has ended. Thank you for your time!">>

\* the response of _handle_post_interview_qa to an ending keyword
ClosingResponse(user_name) ==
    <<"Thank you for your time, ", user_name,
      "! Your interview has been completed and recorded. Our team will review your responses and get back to you soon. We appreciate your interest in joining our team. Have a great day! *This conversation has ended. You can close this window.*">>

\* the response of process_conversation when no state record is found
NotFoundResponse == <<"Error: Conversation state not found.">>

\* the row's main technology: tech_stack[0] of the intake form
main_tech_of(candidate_data) == "Python"

\* _present_comprehensive_analysis.  analysis is the generator result:
\* None (kind "fail"), a dict, or a non-empty JSON value that is no dict,
\* on which analysis.get raises.
_present_comprehensive_analysis(db, email, conv_state, analysis, calls) ==
    IF analysis.kind = "fail"
    THEN Return(db, <<"I'm having trouble generating your analysis right now. Let me know if you have any questions about the interview process.">>, calls)
    ELSE IF analysis.kind = "nondict"
    THEN Raise(db, "AttributeError", calls)
    ELSE LET a == analysis.data
             analysis_response ==
                <<"Interview Complete! Thank you, ", conv_state.user_name,
                  "! Your Performance Analysis: Overall Score: ">>
                \o format_score(a.overall_score)
                \o <<"/10 (", get_performance_level(a.overall_score),
                     ") Technical Knowledge: ">>
                \o format_score(a.technical_score)
                \o <<"/10 Communication Skills: ">>
                \o format_score(a.communication_score)
                \o <<"/10 Problem Solving: ">>
                \o format_score(a.problem_solving_score)
                \o <<"/10 Your Key Strengths: ">> \o a.key_strengths
                \o <<" Areas for Growth: ">> \o a.areas_for_growth
                \o <<" Personalized Recommendations: ">>
                \o a.specific_recommendations
                \o <<" Summary: ", a.summary_feedback,
                     " Would you like me to explain any part of this analysis in more detail? Or do you have questions about the next steps?">>
         IN  Return(save_message(db, email, "assistant", analysis_response),
                    analysis_response, calls)

\* the columns save_comprehensive_analysis writes for a dict
analysis_columns(analysis_data) ==
    [overall_score |-> analysis_data.overall_score,
     technical_score |-> analysis_data.technical_score,
     communication_score |-> analysis_data.communication_score,
     problem_solving_score |-> analysis_data.problem_solving_score,
     key_strengths |-> json_dumps(analysis_data.key_strengths),
     areas_for_growth |-> json_dumps(analysis_data.areas_for_growth),
     specific_recommendations |-> json_dumps(analysis_data.specific_recommendations),
     hiring_recommendation |-> analysis_data.hiring_recommendation,
     summary_feedback |-> analysis_data.summary_feedback]

\* analysis_engine.py generate_comprehensive_analysis: the database after
\* the call and what it returns.  A dict is saved and returned; when the
\* generator raises nothing is saved and None is returned; a JSON value
\* that is no dict makes save_comprehensive_analysis raise inside its own
\* try, which saves nothing, and is then returned.
generate_comprehensive_analysis(db, email, candidate_data, result) ==
    IF result.kind = "dict"
    THEN [db |-> save_comprehensive_analysis(db, candidate_data.id,
                    candidate_data.email, analysis_columns(result.data)),
          analysis |-> result]
    ELSE [db |-> db, analysis |-> result]

\* _handle_conversational_intro
_handle_conversational_intro(db, email, user_input, conv_state, gen) ==
    LET candidate_data == get_candidate_data(db, email)
        response == _generate_conversational_response(gen.rapport)
        db1 == save_conversation_exchange(db, email, user_input, response)
        exchange_count == get_conversation_exchange_count(db1, email)
        transition == Append(response, " Great! I have a good sense of your background now. Let's start with some technical questions that build on what you've shared. Ready?")
        up == create_or_update_conversation(db1, email, DYNAMIC_INTERVIEW, NoneStr, NoneInt, 1)
    IN  IF candidate_data = <<>> THEN Raise(db, "AttributeError", {})
        ELSE IF ~intro_complete(exchange_count)
        THEN Return(save_message(db1, email, "assistant", response), response, {"rapport"})
        ELSE IF up.exc # "" THEN Raise(db1, up.exc, {"rapport"})
        ELSE Return(save_message(up.db, email, "assistant", transition), transition, {"rapport"})

\* An end of _handle_dynamic_interview that stores the number of the
\* question before the current one.
dynamic_interview_finish_rewinding(db, email, current_q_num, response, calls) ==
    LET up == create_or_update_conversation(db, email, NoneStr, NoneStr, NoneInt, current_q_num - 1)
    IN  IF up.exc # "" THEN Raise(db, up.exc, calls)
        ELSE Return(save_message(up.db, email, "assistant", response), response, calls)

\* the end of _handle_dynamic_interview: store the next question number,
\* append the response to the transcript, return it
dynamic_interview_finish(db, email, current_q_num, response, calls) ==
    LET next_q_num == current_q_num + 1
        up == create_or_update_conversation(db, email, NoneStr, NoneStr, NoneInt, next_q_num)
    IN  IF up.exc # "" THEN Raise(db, up.exc, calls)
        ELSE Return(save_message(up.db, email, "assistant", response), response, calls)

\* _handle_dynamic_interview
_handle_dynamic_interview(db, email, user_answer, conv_state, gen) ==
    LET candidate_data == get_candidate_data(db, email)
        current_q_num == conv_state.current_question_number
        previous_qa == get_interview_qa_with_feedback(db, email)
        last_question ==
            IF previous_qa # <<>> THEN previous_qa[Len(previous_qa)].question
            ELSE <<"Introduction question">>
        feedback == analyze_answer_realtime(gen.feedback)
        db1 == save_interview_qa_with_feedback(db, email, current_q_num,
                   last_question, user_answer, feedback.score,
                   feedback.encouraging_feedback)
        answered == get_interview_qa_with_feedback(db1, email)
        up == create_or_update_conversation(db1, email, REAL_TIME_ANALYSIS, NoneStr, NoneInt, NoneInt)
        done == generate_comprehensive_analysis(up.db, email, candidate_data[1], gen.analysis)
        next_question == _generate_next_dynamic_question(gen.next_question)
        first_question == _generate_first_technical_question(gen.first_question, main_tech_of(candidate_data[1]))
    IN  IF candidate_data = <<>> THEN Raise(db, "AttributeError", {})
        ELSE IF ~is_answer_turn(previous_qa, current_q_num)
        THEN dynamic_interview_finish(db, email, current_q_num,
                 <<"Perfect! Let's dive into some technical areas now. ">> \o first_question,
                 {"first_question"})
        ELSE IF feedback.kind # "dict" THEN Raise(db, "AttributeError", {"feedback"})
        ELSE IF ~quota_reached(Len(answered))
        THEN dynamic_interview_finish(db1, email, current_q_num,
                 <<"**", feedback.encouraging_feedback, "** ">> \o next_question,
                 {"feedback", "next_question"})
        ELSE IF up.exc # "" THEN Raise(db1, up.exc, {"feedback"})
        ELSE _present_comprehensive_analysis(done.db, email, conv_state,
                 done.analysis, {"feedback", "analysis"})

\* _provide_detailed_tips, on the stored analysis row
_provide_detailed_tips(analysis, user_name) ==
    LET growth_areas == json_loads(analysis.data.areas_for_growth)
        recommendations == json_loads(analysis.data.specific_recommendations)
    IN  IF growth_areas # <<>> /\ recommendations # <<>>
        THEN <<"Here are some detailed tips for your growth, ", user_name, ": ">>
             \o growth_areas \o recommendations
        ELSE <<"You're doing great, ", user_name,
               "! Keep building on your current strengths and stay curious about new technologies.">>

\* A handler that tests the continue keywords before the end keywords.
_handle_real_time_analysis_continue_first(db, email, user_input, conv_state) ==
    LET up == create_or_update_conversation(db, email, POST_INTERVIEW_QA, NoneStr, NoneInt, NoneInt)
        finished == <<"Perfect! Thank you for completing the interview, ", conv_state.user_name, "!">>
        more == <<"Here are some detailed tips">>
        general == <<"Is there anything specific you'd like to know more about?">>
    IN  IF any_keyword_in(continue_keywords, user_input)
        THEN Return(save_message(db, email, "assistant", more), more, {})
        ELSE IF any_keyword_in(end_keywords, user_input)
        THEN Return(save_message(up.db, email, "assistant", finished), finished, {})
        ELSE Return(save_message(db, email, "assistant", general), general, {})

\* _handle_real_time_analysis
_handle_real_time_analysis(db, email, user_input, conv_state) ==
    LET up == create_or_update_conversation(db, email, POST_INTERVIEW_QA, NoneStr, NoneInt, NoneInt)
        finished ==
            <<"Perfect! Thank you for completing the interview, ", conv_state.user_name,
              "! Feel free to ask me any questions about the process, timeline, or next steps. Or say 'goodbye' when you're ready to end our conversation.">>
        analysis == get_candidate_analysis(db, email)
        more ==
            IF analysis # <<>>
            THEN _provide_detailed_tips(analysis[1], conv_state.user_name)
            ELSE <<"I'd love to provide more details, but I'm having trouble accessing your analysis. Feel free to ask any other questions!">>
        general == <<"Is there anything specific you'd like to know more about regarding your performance or next steps? You can ask for more details or say 'done' when you're ready to finish.">>
    IN  IF any_keyword_in(end_keywords, user_input)
        THEN IF up.exc # "" THEN Raise(db, up.exc, {})
             ELSE Return(save_message(up.db, email, "assistant", finished), finished, {})
        ELSE IF any_keyword_in(continue_keywords, user_input)
        THEN Return(save_message(db, email, "assistant", more), more, {})
        ELSE Return(save_message(db, email, "assistant", general), general, {})

\* _handle_post_interview_qa
_handle_post_interview_qa(db, email, user_input, conv_state, gen) ==
    LET up == create_or_update_conversation(db, email, CONVERSATION_TERMINATED, NoneStr, NoneInt, NoneInt)
        closing == ClosingResponse(conv_state.user_name)
        candidate_data == get_candidate_data(db, email)
        answer ==
            Append(_generate_context_based_response(gen.context),
                   " Anything else you'd like to know? Feel free to ask, or say 'goodbye' when you're ready to end our conversation.")
    IN  IF any_keyword_in(ending_keywords, user_input)
        THEN IF up.exc # "" THEN Raise(db, up.exc, {})
             ELSE Return(save_message(up.db, email, "assistant", closing), closing, {})
        ELSE IF candidate_data = <<>> THEN Raise(db, "AttributeError", {})
        ELSE Return(save_message(db, email, "assistant", answer), answer, {"context"})

\* A terminated state that also resets the question number of the state
\* record: C3 does not hold of it.
_handle_terminated_state_restarting(db, email, user_input, conv_state) ==
    LET up == create_or_update_conversation(db, email, NoneStr, NoneStr, NoneInt, 0)
    IN  Return(save_message(up.db, email, "assistant", TerminatedResponse), TerminatedResponse, {})

\* _handle_terminated_state
_handle_terminated_state(db, email, user_input, conv_state) ==
    Return(save_message(db, email, "assistant", TerminatedResponse), TerminatedResponse, {})

\* A turn that does not save its input: C9 does not hold of it.
save_user_message_dropped(db, email, user_input) == db

\* "Save user message to chat history" of process_conversation
save_user_message(db, email, user_input) == save_message(db, email, "user", user_input)

\* "Route to appropriate handler" of process_conversation
route_to_handler(db, email, user_input, conv_state, gen) ==
    LET current_state == conv_state.current_state
    IN  IF current_state = CONVERSATIONAL_INTRO
        THEN _handle_conversational_intro(db, email, user_input, conv_state, gen)
        ELSE IF current_state = DYNAMIC_INTERVIEW
        THEN _handle_dynamic_interview(db, email, user_input, conv_state, gen)
        ELSE IF current_state = REAL_TIME_ANALYSIS
        THEN _handle_real_time_analysis(db, email, user_input, conv_state)
        ELSE IF current_state = POST_INTERVIEW_QA
        THEN _handle_post_interview_qa(db, email, user_input, conv_state, gen)
        ELSE IF current_state = CONVERSATION_TERMINATED
        THEN _handle_terminated_state(db, email, user_input, conv_state)
        ELSE Return(db, <<"I'm not sure how to help with that. Could you please clarify?">>, {})

\* A process_conversation that saves the input before it looks for the
\* state record: C8 does not hold of it.
process_conversation_saving_first(db, email, user_input, gen) ==
    LET saved == save_user_message(db, email, user_input)
        found == get_conversation_state(saved, email)
    IN  IF found = <<>> THEN Return(saved, NotFoundResponse, {})
        ELSE route_to_handler(saved, email, user_input, found[1], gen)

\* process_conversation
process_conversation(db, email, user_input, gen) ==
    LET found == get_conversation_state(db, email)
        r == route_to_handler(save_user_message(db, email, user_input), email,
                              user_input, found[1], gen)
    IN  IF found = <<>> THEN Return(db, NotFoundResponse, {})
        ELSE IF r.exc = "" /\ r.db.raised # "" THEN Raise(r.db, r.db.raised, r.calls)
        ELSE r

\* start_conversational_intro
start_conversational_intro(db, email, user_name, candidate_data) ==
    LET up == create_or_update_conversation(db, email, CONVERSATIONAL_INTRO, user_name, candidate_data.id, NoneInt)
        intro_message ==
            <<"Hello ", user_name,
              "! Welcome to TalentScout AI. Before we dive into technical questions, I'd love to get to know you better!">>
    IN  IF up.exc # "" THEN Raise(db, up.exc, {})
        ELSE Return(save_message(up.db, email, "assistant", intro_message), intro_message, {})

(***************************************************************************)
(* The state machine.                                                      *)
(***************************************************************************)
\* The phase of a candidate's state record, "" when there is none.
PhaseOf(db, email) ==
    IF get_conversation_state(db, email) = <<>> THEN ""
    ELSE get_conversation_state(db, email)[1].current_state

\* The record of a call: the operation, its arguments, the generator results
\* it met, the phase and the number of analysis rows of the email before the
\* call, and what the call returned or raised.
Call(op, email, input, gen, db, ret, exc) ==
    [op |-> op, email |-> email, input |-> input, gen |-> gen,
     pre |-> PhaseOf(db, email),
     pre_analysis |-> Len(rows_of(db.candidate_analysis, email)),
     ret |-> ret, exc |-> exc]

NoCall ==
    [op |-> "none", email |-> "", input |-> <<>>, gen |-> DefaultGen,
     pre |-> "", pre_analysis |-> 0, ret |-> <<>>, exc |-> ""]

Init ==
    /\ candidates = <<>>
    /\ conversations = <<>>
    /\ chat_messages = <<>>
    /\ interview_qa = <<>>
    /\ candidate_analysis = <<>>
    /\ conversation_memory = <<>>
    /\ sqlite_sequence = [candidates |-> 0, conversations |-> 0, candidate_analysis |-> 0]
    /\ last = NoCall
    /\ deviations = 0
    /\ clock = 0
    /\ in_flight = <<>>

\* The tables and the clock after the writes of a call.
Store(db) ==
    /\ candidates' = db.candidates
    /\ conversations' = db.conversations
    /\ chat_messages' = db.chat_messages
    /\ interview_qa' = db.interview_qa
    /\ candidate_analysis' = db.candidate_analysis
    /\ conversation_memory' = db.conversation_memory
    /\ sqlite_sequence' = db.sqlite_sequence
    /\ clock' = db.clock

\* The database after a call that ran from its first statement to its last
\* with no other call in between becomes the state.
Commit(db) ==
    /\ Store(db)
    /\ UNCHANGED in_flight

\* The generator results a turn in a phase can meet: the intents no handler
\* of the phase calls are left at their scripted result.
GenChoices(current_state) ==
    IF current_state = CONVERSATIONAL_INTRO
    THEN {[DefaultGen EXCEPT !.rapport = r] : r \in RapportResults}
    ELSE IF current_state = DYNAMIC_INTERVIEW
    THEN {[DefaultGen EXCEPT !.first_question = q, !.feedback = f,
                             !.next_question = n, !.analysis = a] :
            q \in FirstQuestionResults, f \in FeedbackResults,
            n \in NextQuestionResults, a \in AnalysisResults}
    ELSE IF current_state = POST_INTERVIEW_QA
    THEN {[DefaultGen EXCEPT !.context = c] : c \in ContextResults}
    ELSE {DefaultGen}

\* The off-script choices of a turn: its input, and the generator results
\* that differ from the script.
Cost(user_input, gen, script) ==
    (IF user_input # DefaultInput THEN 1 ELSE 0)
    + Cardinality({i \in GenIntents : gen[i] # script[i]})

\* candidate_interview_page, the intake form (main.py 146-173): shown when
\* the email has no state record; saves the candidate and starts the intro.
SubmitIntake(email) ==
    /\ get_conversation_state(DB, email) = <<>>
    /\ Len(candidates) < MaxIntakes
    /\ LET candidate_data == [email |-> email, full_name |-> FullName(email)]
           db1 == save_candidate_to_db(DB, candidate_data)
           candidate_id == db1.sqlite_sequence.candidates
           r == start_conversational_intro(db1, email, FullName(email),
                    [id |-> candidate_id, email |-> email, full_name |-> FullName(email)])
       IN  /\ Commit(r.db)
           /\ last' = Call("intake", email, <<>>, DefaultGen, DB, r.ret, r.exc)
    /\ UNCHANGED deviations

\* One call of process_conversation (main.py 571-599), by any caller, for
\* any email and in any phase.  The chat input of the page (main.py
\* 193-207) is one caller: it is shown when a state record exists and the
\* phase is not CONVERSATION_TERMINATED.  script is the generator
\* behaviour that counts as on-script.
ProcessConversation(email, user_input, gen, script) ==
    /\ Len(chat_messages) < MaxMessages
    /\ deviations + Cost(user_input, gen, script) <= MaxDeviations
    /\ LET r == process_conversation(DB, email, user_input, gen)
       IN  \* a result is chosen only for an intent the turn calls
           /\ \A i \in GenIntents \ r.calls : gen[i] = script[i]
           /\ deviations' = deviations + Cost(user_input, gen, script)
           /\ Commit(r.db)
           /\ last' = Call("process", email, user_input, gen, DB, r.ret, r.exc)

\* "Start New Interview" (main.py 236-241): shown when a state record exists.
ClearConversation(email) ==
    /\ get_conversation_state(DB, email) # <<>>
    /\ Commit(clear_conversation(DB, email))
    /\ last' = Call("clear", email, <<>>, DefaultGen, DB, <<>>, "")
    /\ UNCHANGED deviations

\* The manager dashboard's Analyze button (main.py 345-360): shown for a
\* completed candidate that has no analysis.
ManagerAnalyze(email, result, script) ==
    /\ \E i \in 1..Len(get_completed_candidates(DB)) :
            get_completed_candidates(DB)[i].email = email
    /\ get_candidate_analysis(DB, email) = <<>>
    /\ LET candidate_data == get_candidate_data(DB, email)[1]
           r == generate_comprehensive_analysis(DB, email, candidate_data, result)
           cost == IF result # script.analysis THEN 1 ELSE 0
       IN  /\ deviations + cost <= MaxDeviations
           /\ deviations' = deviations + cost
           /\ Commit(r.db)
           /\ last' = Call("analyze", email, <<>>,
                           [DefaultGen EXCEPT !.analysis = result], DB, <<>>, "")

\* A turn of the chat, with any input and any generator behaviour.
Turn(email) ==
    \E user_input \in Inputs, gen \in GenChoices(PhaseOf(DB, email)) :
        ProcessConversation(email, user_input, gen, DefaultGen)

Next ==
    \/ \E email \in Emails : SubmitIntake(email)
    \/ \E email \in Emails : Turn(email)
    \/ \E email \in Emails : ClearConversation(email)
    \/ \E email \in Emails, result \in AnalysisResults : ManagerAnalyze(email, result, DefaultGen)

Spec == Init /\ [][Next]_vars

(***************************************************************************)
(* The same program when the generator is down: every generator call of    *)
(* every turn raises.                                                      *)
(***************************************************************************)
TurnAllFail(email) ==
    \E user_input \in Inputs :
        ProcessConversation(email, user_input, AllFailGen, AllFailGen)

NextAllFail ==
    \/ \E email \in Emails : SubmitIntake(email)
    \/ \E email \in Emails : TurnAllFail(email)
    \/ \E email \in Emails : ClearConversation(email)
    \/ \E email \in Emails : ManagerAnalyze(email, AllFailGen.analysis, AllFailGen)

SpecAllFail == Init /\ [][NextAllFail]_vars

(***************************************************************************)
(* Properties.                                                             *)
(***************************************************************************)
PhaseNow(email) == PhaseOf(DB, email)
Answers(email) == rows_of(interview_qa, email)
Transcript(email) == rows_of(chat_messages, email)
Exchanges(email) == get_conversation_exchange_count(DB, email)

\* the step is a call of process_conversation for the email
IsTurn(email) == last'.op = "process" /\ last'.email = email

\* the successor of a phase on the path of the protocol
Successor(phase) ==
    IF phase = CONVERSATIONAL_INTRO THEN DYNAMIC_INTERVIEW
    ELSE IF phase = DYNAMIC_INTERVIEW THEN REAL_TIME_ANALYSIS
    ELSE IF phase = REAL_TIME_ANALYSIS THEN POST_INTERVIEW_QA
    ELSE IF phase = POST_INTERVIEW_QA THEN CONVERSATION_TERMINATED
    ELSE phase

\* C1: a call of process_conversation leaves the phase of the candidate as
\* it is or moves it to the immediate successor on the path
\* CONVERSATIONAL_INTRO -> DYNAMIC_INTERVIEW -> REAL_TIME_ANALYSIS ->
\* POST_INTERVIEW_QA -> CONVERSATION_TERMINATED: never backward, never past
\* a phase.
C1_PhaseFollowsPath ==
    [][\A e \in Emails :
        IsTurn(e) =>
            \/ PhaseNow(e)' = PhaseNow(e)
            \/ PhaseNow(e)' = Successor(PhaseNow(e))]_vars

\* C1 witness: a conversation has walked the whole path: the last call
\* moved it from POST_INTERVIEW_QA to CONVERSATION_TERMINATED.
C1_Witness ==
    \E e \in Emails :
        /\ last.op = "process" /\ last.email = e
        /\ last.pre = POST_INTERVIEW_QA
        /\ PhaseNow(e) = CONVERSATION_TERMINATED

\* C2 as stated: a call of process_conversation made when exactly 5
\* answered questions are recorded is the call that moves the phase from
\* DYNAMIC_INTERVIEW to REAL_TIME_ANALYSIS.
C2_TransitionOnNextCall ==
    [][\A e \in Emails :
        (IsTurn(e) /\ Len(Answers(e)) = 5) =>
            (PhaseNow(e) = DYNAMIC_INTERVIEW /\ PhaseNow(e)' = REAL_TIME_ANALYSIS)]_vars

\* C2 amended: the call of process_conversation that records the 5th
\* answered question is the call that moves the phase from
\* DYNAMIC_INTERVIEW to REAL_TIME_ANALYSIS, whatever the generator calls
\* do; the phase enters REAL_TIME_ANALYSIS on no other step, and an
\* interview never holds more than 5 answered questions, so it happens
\* once.
C2_TransitionOnFifthAnswer ==
    [][\A e \in Emails :
        /\ (IsTurn(e) /\ Len(Answers(e)) = 4 /\ Len(Answers(e))' = 5)
            => (PhaseNow(e) = DYNAMIC_INTERVIEW /\ PhaseNow(e)' = REAL_TIME_ANALYSIS)
        /\ (PhaseNow(e)' = REAL_TIME_ANALYSIS /\ PhaseNow(e) # REAL_TIME_ANALYSIS)
            => (IsTurn(e) /\ Len(Answers(e)) = 4 /\ Len(Answers(e))' = 5)
        /\ Len(Answers(e))' <= 5]_vars

\* C2 witness: the 5th answer has just been recorded and the phase has
\* moved, in a turn whose feedback call and analysis call both raised.
C2_Witness ==
    \E e \in Emails :
        /\ last.op = "process" /\ last.email = e
        /\ last.pre = DYNAMIC_INTERVIEW
        /\ PhaseNow(e) = REAL_TIME_ANALYSIS
        /\ Len(Answers(e)) = 5
        /\ last.gen.feedback.kind = "fail"
        /\ last.gen.analysis.kind = "fail"

\* C3 as stated: a call of process_conversation on a candidate in
\* CONVERSATION_TERMINATED writes nothing: state record, transcript,
\* answered questions and analysis are as before the call.
C3_TerminatedWritesNothing ==
    [][\A e \in Emails :
        (IsTurn(e) /\ PhaseNow(e) = CONVERSATION_TERMINATED) =>
            /\ conversations' = conversations
            /\ chat_messages' = chat_messages
            /\ interview_qa' = interview_qa
            /\ candidate_analysis' = candidate_analysis]_vars

\* C3 amended: a call of process_conversation on a candidate in
\* CONVERSATION_TERMINATED appends two entries to the transcript, the
\* user input and the fixed response of the terminated state, and writes
\* nothing else: state record, answered questions, intro memory, analysis
\* and candidates are as before the call, and the phase stays
\* CONVERSATION_TERMINATED.
C3_TerminatedWritesTranscriptOnly ==
    [][\A e \in Emails :
        (IsTurn(e) /\ PhaseNow(e) = CONVERSATION_TERMINATED) =>
            /\ conversations' = conversations
            /\ interview_qa' = interview_qa
            /\ candidate_analysis' = candidate_analysis
            /\ conversation_memory' = conversation_memory
            /\ candidates' = candidates
            /\ PhaseNow(e)' = CONVERSATION_TERMINATED
            /\ chat_messages' = chat_messages \o
                <<[email |-> e, message_type |-> "user",
                   message_content |-> last'.input, timestamp |-> clock],
                  [email |-> e, message_type |-> "assistant",
                   message_content |-> TerminatedResponse, timestamp |-> clock]>>]_vars

\* C3 witness: process_conversation has been called on a terminated
\* conversation, with an input that holds no keyword.
C3_Witness ==
    \E e \in Emails :
        /\ last.op = "process" /\ last.email = e
        /\ last.pre = CONVERSATION_TERMINATED
        /\ last.input = Hello

\* C4 as stated: 'goodbye' in POST_INTERVIEW_QA ends the conversation with
\* the closing message, and 'goodbye' submitted again returns the same
\* message as the terminating call and leaves the phase as it is.
C4_SameClosingMessage ==
    [][\A e \in Emails :
        /\ (IsTurn(e) /\ PhaseNow(e) = POST_INTERVIEW_QA /\ last'.input = Goodbye)
            => PhaseNow(e)' = CONVERSATION_TERMINATED
        /\ (/\ last.op = "process" /\ last.email = e /\ last.input = Goodbye
            /\ last.pre = POST_INTERVIEW_QA
            /\ IsTurn(e) /\ last'.input = Goodbye)
            => (last'.ret = last.ret /\ PhaseNow(e)' = PhaseNow(e))]_vars

\* C4 amended: 'goodbye' in POST_INTERVIEW_QA moves the phase to
\* CONVERSATION_TERMINATED and returns the closing message that names the
\* candidate; 'goodbye' submitted to the terminated conversation returns
\* the fixed response of the terminated state, which is another text than
\* the terminating call returned, and leaves the state record as it is.
C4_ClosingThenTerminatedMessage ==
    [][\A e \in Emails :
        /\ (IsTurn(e) /\ PhaseNow(e) = POST_INTERVIEW_QA /\ last'.input = Goodbye)
            => /\ PhaseNow(e)' = CONVERSATION_TERMINATED
               /\ last'.ret = ClosingResponse(get_conversation_state(DB, e)[1].user_name)
        /\ (IsTurn(e) /\ PhaseNow(e) = CONVERSATION_TERMINATED /\ last'.input = Goodbye)
            => /\ last'.ret = TerminatedResponse
               /\ conversations' = conversations
        /\ (/\ last.op = "process" /\ last.email = e /\ last.input = Goodbye
            /\ last.pre = POST_INTERVIEW_QA
            /\ IsTurn(e) /\ last'.input = Goodbye)
            => last'.ret # last.ret]_vars

\* C4 witness: 'goodbye' has been submitted to a terminated conversation
\* and the fixed response of the terminated state came back.
C4_Witness ==
    \E e \in Emails :
        /\ last.op = "process" /\ last.email = e
        /\ last.pre = CONVERSATION_TERMINATED
        /\ last.input = Goodbye
        /\ last.ret = TerminatedResponse
        /\ PhaseNow(e) = CONVERSATION_TERMINATED

\* C5: after every step of intake, turn and reset the store holds at most
\* one conversations record for an email: create_or_update_conversation
\* inserts a record only when the email has none (no insert is attempted on
\* an email that has one, so no call raises IntegrityError, and a step adds
\* at most one record) and otherwise updates the record in place, which
\* keeps its id.
C5_OneConversationPerEmail ==
    [][\A e \in Emails :
        LET before == rows_of(conversations, e)
            after == rows_of(conversations, e)'
        IN  /\ Len(after) <= 1
            /\ last'.exc # "IntegrityError"
            /\ (before # <<>> /\ after # <<>>) => after[1].id = before[1].id
            /\ (before = <<>> /\ after # <<>>) =>
                    /\ last'.op = "intake"
                    /\ after[1].id = sqlite_sequence.conversations + 1]_vars

\* C5 witness: the second record of an email, created after a reset, has
\* been updated by the turns of its conversation and is still the only one.
C5_Witness ==
    \E e \in Emails :
        /\ Len(rows_of(conversations, e)) = 1
        /\ rows_of(conversations, e)[1].id = 2
        /\ PhaseNow(e) = DYNAMIC_INTERVIEW
        /\ rows_of(conversations, e)[1].current_question_number = 2

\* the step saved a comprehensive analysis for the email: the turn that
\* recorded the last answer, or the manager's Analyze button, with a
\* generator result that is a dict
SavedAnalysis(email) ==
    /\ last'.email = email
    /\ last'.gen.analysis.kind = "dict"
    /\ \/ last'.op = "analyze"
       \/ /\ last'.op = "process"
          /\ PhaseNow(email) = DYNAMIC_INTERVIEW
          /\ PhaseNow(email)' = REAL_TIME_ANALYSIS

\* C6: every save_comprehensive_analysis for an email leaves exactly one
\* candidate_analysis record for it, holding the scores and texts of that
\* call: a second save overwrites the record of the first (same id) and
\* appends nothing.
C6_SecondSaveOverwrites ==
    [][\A e \in Emails :
        SavedAnalysis(e) =>
            LET before == rows_of(candidate_analysis, e)
                after == rows_of(candidate_analysis, e)'
            IN  /\ Len(after) = 1
                /\ after[1].data = analysis_columns(last'.gen.analysis.data)
                /\ before # <<>> => after[1].id = before[1].id
                /\ Len(candidate_analysis') =
                        Len(candidate_analysis) + (IF before = <<>> THEN 1 ELSE 0)]_vars

\* C6 witness: an analysis has been saved for an email that had a record
\* of an earlier interview, with other scores than the scripted ones, and
\* the one record holds them.
C6_Witness ==
    \E e \in Emails :
        /\ last.op = "process" /\ last.email = e
        /\ last.pre = DYNAMIC_INTERVIEW
        /\ PhaseNow(e) = REAL_TIME_ANALYSIS
        /\ last.pre_analysis = 1
        /\ last.gen.analysis = [kind |-> "dict", data |-> AnalysisB]
        /\ Len(rows_of(candidate_analysis, e)) = 1
        /\ rows_of(candidate_analysis, e)[1].data = analysis_columns(AnalysisB)

\* the questions the transcript shows the candidate was asked in
\* DYNAMIC_INTERVIEW: the text after the opening of the first question's
\* message and after the feedback of each later message
IsFirstQuestionMessage(m) ==
    /\ m.message_type = "assistant"
    /\ m.message_content[1] = "Perfect! Let's dive into some technical areas now. "
IsNextQuestionMessage(m) ==
    /\ m.message_type = "assistant"
    /\ m.message_content[1] = "**"
IsQuestionMessage(m) == IsFirstQuestionMessage(m) \/ IsNextQuestionMessage(m)
QuestionOf(m) ==
    IF IsFirstQuestionMessage(m)
    THEN SubSeq(m.message_content, 2, Len(m.message_content))
    ELSE SubSeq(m.message_content, 4, Len(m.message_content))
PosedQuestions(email) ==
    LET asked == SelectSeq(Transcript(email), IsQuestionMessage)
    IN  [i \in 1..Len(asked) |-> QuestionOf(asked[i])]

\* C7: when every generator call raises, the interview completes, and once
\* the phase has left DYNAMIC_INTERVIEW the questions that were posed are
\* 5 non-empty, pairwise distinct fallback questions.
C7_FallbackQuestionsDistinct ==
    \A e \in Emails :
        PhaseNow(e) \in {REAL_TIME_ANALYSIS, POST_INTERVIEW_QA, CONVERSATION_TERMINATED} =>
            LET posed == PosedQuestions(e)
            IN  /\ Len(Answers(e)) = 5
                /\ Len(posed) = 5
                /\ \A i \in 1..Len(posed) : posed[i] # <<>>
                /\ \A i, j \in 1..Len(posed) : i # j => posed[i] # posed[j]

\* C8: process_conversation for an email that has no conversations record
\* returns the not-found error text, raises nothing and writes nothing: no
\* table changes.
C8_NotFoundWritesNothing ==
    [][\A e \in Emails :
        (IsTurn(e) /\ get_conversation_state(DB, e) = <<>>) =>
            /\ last'.ret = NotFoundResponse
            /\ last'.exc = ""
            /\ DB' = DB]_vars

\* C8 witness: process_conversation has been called for an email without a
\* state record, after a reset, and returned the not-found error text.
C8_Witness ==
    \E e \in Emails :
        /\ last.op = "process" /\ last.email = e
        /\ last.pre = ""
        /\ last.ret = NotFoundResponse
        /\ conversations = <<>>
        /\ candidates # <<>>

\* C9: a call of process_conversation that finds a state record appends
\* the raw user input to the transcript first: the transcript after the
\* call is the one before it, then the input, then what the handler wrote,
\* also when the handler raises.
C9_InputSavedFirst ==
    [][\A e \in Emails :
        (IsTurn(e) /\ get_conversation_state(DB, e) # <<>>) =>
            /\ Len(chat_messages') > Len(chat_messages)
            /\ SubSeq(chat_messages', 1, Len(chat_messages) + 1) =
                    Append(chat_messages,
                           [email |-> e, message_type |-> "user",
                            message_content |-> last'.input,
                            timestamp |-> clock])]_vars

\* C9 witness: a handler has raised, and the input of its call is the last
\* entry of the transcript.
C9_Witness ==
    \E e \in Emails :
        /\ last.op = "process" /\ last.email = e
        /\ last.exc = "AttributeError"
        /\ chat_messages # <<>>
        /\ chat_messages[Len(chat_messages)] =
                [email |-> e, message_type |-> "user",
                 message_content |-> last.input, timestamp |-> clock]

\* C10: every turn in CONVERSATIONAL_INTRO records one exchange, and the
\* phase becomes DYNAMIC_INTERVIEW on the turn that records the 3rd
\* exchange and on no other: the 1st and the 2nd leave the phase as it is
\* and no 4th is recorded, whether the rapport generator answers or raises.
C10_IntroEndsOnThirdExchange ==
    [][\A e \in Emails :
        (IsTurn(e) /\ PhaseNow(e) = CONVERSATIONAL_INTRO) =>
            /\ Exchanges(e)' = Exchanges(e) + 1
            /\ Exchanges(e)' <= 3
            /\ PhaseNow(e)' = (IF Exchanges(e)' = 3 THEN DYNAMIC_INTERVIEW
                               ELSE CONVERSATIONAL_INTRO)]_vars

\* C10 witness: the turn of the 3rd exchange has moved the phase to
\* DYNAMIC_INTERVIEW with the rapport generator raising.
C10_Witness ==
    \E e \in Emails :
        /\ last.op = "process" /\ last.email = e
        /\ last.pre = CONVERSATIONAL_INTRO
        /\ last.gen.rapport.kind = "fail"
        /\ PhaseNow(e) = DYNAMIC_INTERVIEW
        /\ Exchanges(e) = 3

(***************************************************************************)
(* The closing phase with more inputs: the candidate answers 'goodbye' up  *)
(* to POST_INTERVIEW_QA and types any of PostInputs there.                 *)
(***************************************************************************)
ShoutedBye == <<"B","Y","E","!">>
Weekend == <<"n","e","x","t"," ","w","e","e","k","e","n","d","?">>
IKnow == <<"I"," ","k","n","o","w">>
PostInputs == {Goodbye, Hello, ShoutedBye, Weekend, IKnow}

TurnPost(email) ==
    \E user_input \in (IF PhaseOf(DB, email) = POST_INTERVIEW_QA
                       THEN PostInputs ELSE {DefaultInput}),
       gen \in (IF PhaseOf(DB, email) = POST_INTERVIEW_QA
                THEN GenChoices(POST_INTERVIEW_QA) ELSE {DefaultGen}) :
        ProcessConversation(email, user_input, gen, DefaultGen)

NextPost ==
    \/ \E email \in Emails : SubmitIntake(email)
    \/ \E email \in Emails : TurnPost(email)
    \/ \E email \in Emails : ClearConversation(email)

SpecPost == Init /\ [][NextPost]_vars

\* C11: in POST_INTERVIEW_QA the phase becomes CONVERSATION_TERMINATED if
\* and only if the lower-cased input holds a closing phrase as a substring:
\* 'goodbye', 'BYE!' (upper case) and 'next weekend?' ('end' inside a
\* word) end the conversation, 'hello' and 'I know' ('no' is no closing
\* phrase of this phase) leave the phase POST_INTERVIEW_QA, whether the
\* context generator answers or raises.
C11_ClosingPhraseEndsConversation ==
    [][\A e \in Emails :
        (IsTurn(e) /\ PhaseNow(e) = POST_INTERVIEW_QA) =>
            /\ last'.exc = ""
            /\ last'.input \in {Goodbye, ShoutedBye, Weekend}
                    => PhaseNow(e)' = CONVERSATION_TERMINATED
            /\ last'.input \in {Hello, IKnow}
                    => PhaseNow(e)' = POST_INTERVIEW_QA]_vars

\* C11 witness: an input without a closing phrase has been answered in
\* POST_INTERVIEW_QA with the context generator raising, and the phase is
\* still POST_INTERVIEW_QA.
C11_Witness ==
    \E e \in Emails :
        /\ last.op = "process" /\ last.email = e
        /\ last.pre = POST_INTERVIEW_QA
        /\ last.input = IKnow
        /\ last.gen.context.kind = "fail"
        /\ PhaseNow(e) = POST_INTERVIEW_QA

\* the step is a reset of the email's conversation
IsClear(email) == last'.op = "clear" /\ last'.email = email

\* C12: clear_conversation is a full reset: after it the email has no
\* state record, an empty transcript, no answered questions and no stored
\* analysis.
C12_ClearIsFullReset ==
    [][\A e \in Emails :
        IsClear(e) =>
            /\ get_conversation_state(DB, e)' = <<>>
            /\ get_chat_history(DB, e)' = {<<>>}
            /\ get_interview_qa_with_feedback(DB, e)' = <<>>
            /\ get_candidate_analysis(DB, e)' = <<>>]_vars

\* the sequence numbers of the answered questions of an email
SequenceNumbers(email) ==
    {Answers(email)[i].question_number : i \in 1..Len(Answers(email))}

\* C13: the answered questions of a candidate carry sequence numbers that
\* are 1-based and pairwise distinct: when k answers are recorded the
\* numbers are exactly 1..k.
C13_SequenceNumbersFromOne ==
    \A e \in Emails :
        /\ SequenceNumbers(e) = 1..Len(Answers(e))
        /\ Cardinality(SequenceNumbers(e)) = Len(Answers(e))

\* C14: the question posed in a turn of DYNAMIC_INTERVIEW is never the
\* text of the question posed in the turn before it, whatever the
\* generator calls return or raise.
C14_NoImmediateRepetition ==
    \A e \in Emails :
        \A i \in 1..(Len(PosedQuestions(e)) - 1) :
            PosedQuestions(e)[i + 1] # PosedQuestions(e)[i]

(***************************************************************************)
(* The score functions of ScoreCalculator applied to scores in tenths:     *)
(* three sub-scores on the half points 0.0, 0.5, .. and on 3.3 and 6.7     *)
(* for the overall score, one score on every tenth for the performance     *)
(* level.                                                                  *)
(***************************************************************************)
MaxHalfPoints == 20
MaxTenths == 100

SubScores == {5 * i : i \in 0..MaxHalfPoints} \cup {33, 67}
ScoreArguments ==
    {<<t, c, p>> : t \in SubScores, c \in SubScores, p \in SubScores}
    \cup {<<s>> : s \in 0..MaxTenths}

InitScore ==
    /\ candidates = <<>>
    /\ conversations = <<>>
    /\ chat_messages = <<>>
    /\ interview_qa = <<>>
    /\ candidate_analysis = <<>>
    /\ conversation_memory = <<>>
    /\ sqlite_sequence = [candidates |-> 0, conversations |-> 0, candidate_analysis |-> 0]
    /\ last \in {[NoCall EXCEPT !.input = args] : args \in ScoreArguments}
    /\ deviations = 0
    /\ clock = 0
    /\ in_flight = <<>>

CalculateOverallScore ==
    /\ last.op = "none" /\ Len(last.input) = 3
    /\ \E overall \in calculate_overall_score(last.input[1], last.input[2], last.input[3]) :
            last' = [last EXCEPT !.op = "calculate_overall_score", !.ret = <<overall>>]
    /\ UNCHANGED <<candidates, conversations, chat_messages, interview_qa,
                   candidate_analysis, conversation_memory, sqlite_sequence, deviations,
                   clock, in_flight>>

GetPerformanceLevel ==
    /\ last.op = "none" /\ Len(last.input) = 1
    /\ last' = [last EXCEPT !.op = "get_performance_level",
                            !.ret = <<get_performance_level(last.input[1])>>]
    /\ UNCHANGED <<candidates, conversations, chat_messages, interview_qa,
                   candidate_analysis, conversation_memory, sqlite_sequence, deviations,
                   clock, in_flight>>

NextScore == CalculateOverallScore \/ GetPerformanceLevel

SpecScore == InitScore /\ [][NextScore]_vars

\* C15: for sub-scores in [0,10], calculate_overall_score returns a whole
\* number of tenths in [0,10] that is a nearest tenth of
\* 0.4*technical + 0.3*communication + 0.3*problemSolving (at most 0.05
\* away from it), and overall(8,7,9) = 8.0, overall(10,10,10) = 10.0,
\* overall(0,0,0) = 0.0.
C15_OverallScoreRounded ==
    (/\ last.op = "calculate_overall_score"
     /\ \A i \in 1..3 : last.input[i] \in 0..100) =>
        LET exact == 4 * last.input[1] + 3 * last.input[2] + 3 * last.input[3]
            overall == last.ret[1]
        IN  /\ overall \in 0..100
            /\ 10 * overall - exact \in (0 - 5)..5
            /\ last.input = <<80, 70, 90>> => overall = 80
            /\ last.input = <<100, 100, 100>> => overall = 100
            /\ last.input = <<0, 0, 0>> => overall = 0

\* C15 witness: overall(8,7,9) has been computed and is 8.0.
C15_Witness ==
    /\ last.op = "calculate_overall_score"
    /\ last.input = <<80, 70, 90>>
    /\ last.ret = <<80>>

\* C16: get_performance_level answers for every score, with Excellent
\* exactly for s >= 8, Good exactly for 6 <= s < 8, Average exactly for
\* 4 <= s < 6 and Needs Improvement exactly for s < 4: the boundaries 8, 6
\* and 4 belong to the higher tier and 3.9 is Needs Improvement.
C16_PerformanceLevelTiers ==
    last.op = "get_performance_level" =>
        LET s == last.input[1]
            tier == last.ret[1]
        IN  /\ tier \in {"Excellent", "Good", "Average", "Needs Improvement"}
            /\ tier = "Excellent" <=> s >= 80
            /\ tier = "Good" <=> (60 <= s /\ s < 80)
            /\ tier = "Average" <=> (40 <= s /\ s < 60)
            /\ tier = "Needs Improvement" <=> s < 40
            /\ s = 80 => tier = "Excellent"
            /\ s = 60 => tier = "Good"
            /\ s = 40 => tier = "Average"
            /\ s = 39 => tier = "Needs Improvement"

\* C16 witness: the level of the boundary score 8.0 has been computed and
\* is Excellent.
C16_Witness ==
    /\ last.op = "get_performance_level"
    /\ last.input = <<80>>
    /\ last.ret = <<"Excellent">>

(***************************************************************************)
(* The first turns of a conversation with the clock of the store running:  *)
(* a second may pass between two calls.                                    *)
(***************************************************************************)
MaxClock == 2
MaxOrderMessages == 4

\* a second passes
Tick ==
    /\ clock < MaxClock
    /\ clock' = clock + 1
    /\ UNCHANGED <<candidates, conversations, chat_messages, interview_qa,
                   candidate_analysis, conversation_memory, sqlite_sequence,
                   last, deviations, in_flight>>

TurnOrder(email) ==
    /\ Len(chat_messages) < MaxOrderMessages
    /\ Turn(email)

NextOrder ==
    \/ \E email \in Emails : SubmitIntake(email)
    \/ \E email \in Emails : TurnOrder(email)
    \/ Tick

SpecOrder == Init /\ [][NextOrder]_vars

\* the entries of the transcript and of the intro memory in the order in
\* which they were appended
AppendedHistory(email) ==
    [i \in 1..Len(Transcript(email)) |->
        [type |-> Transcript(email)[i].message_type,
         content |-> Transcript(email)[i].message_content,
         timestamp |-> Transcript(email)[i].timestamp]]
AppendedContext(email) ==
    [i \in 1..Len(rows_of(conversation_memory, email)) |->
        [role |-> rows_of(conversation_memory, email)[i].role,
         content |-> rows_of(conversation_memory, email)[i].content,
         timestamp |-> rows_of(conversation_memory, email)[i].timestamp]]

\* C17: get_chat_history, and get_conversation_context for the intro
\* memory, return the entries of a candidate in exactly the order in which
\* they were appended, also when entries carry the same timestamp: no
\* other order can come back.
C17_HistoryInAppendedOrder ==
    \A e \in Emails :
        /\ get_chat_history(DB, e) = {AppendedHistory(e)}
        /\ Len(rows_of(conversation_memory, e)) <= 6
                => get_conversation_context(DB, e, 6) = {AppendedContext(e)}

(***************************************************************************)
(* Turns in which the store fails: a write of the turn raises              *)
(* sqlite3.OperationalError (the database file is locked by the other      *)
(* page, the disk is full) after some writes of the turn have committed.   *)
(***************************************************************************)
MaxWritesBeforeFault == 3

\* a call of process_conversation in which the store fails after
\* writes_left writes
ProcessConversationFaulty(email, user_input, writes_left) ==
    /\ Len(chat_messages) < MaxMessages
    /\ deviations + 1 + Cost(user_input, DefaultGen, DefaultGen) <= MaxDeviations
    /\ LET r == process_conversation([DB EXCEPT !.writes_left = writes_left],
                                     email, user_input, DefaultGen)
       IN  /\ r.exc = "OperationalError"
           /\ deviations' = deviations + 1 + Cost(user_input, DefaultGen, DefaultGen)
           /\ Commit(r.db)
           /\ last' = Call("process", email, user_input, DefaultGen, DB, r.ret, r.exc)

TurnScripted(email) ==
    \E user_input \in Inputs :
        ProcessConversation(email, user_input, DefaultGen, DefaultGen)

TurnFaulty(email) ==
    \E user_input \in Inputs, writes_left \in 0..MaxWritesBeforeFault :
        ProcessConversationFaulty(email, user_input, writes_left)

NextFault ==
    \/ \E email \in Emails : SubmitIntake(email)
    \/ \E email \in Emails : TurnScripted(email)
    \/ \E email \in Emails : TurnFaulty(email)
    \/ \E email \in Emails : ClearConversation(email)

SpecFault == Init /\ [][NextFault]_vars

\* C18: when a store call fails part-way through a turn, the turn commits
\* nothing but the first append to the transcript: state record, answered
\* questions, intro memory and analysis are as before the call.
C18_FailedTurnCommitsNothing ==
    [][\A e \in Emails :
        (IsTurn(e) /\ last'.exc = "OperationalError") =>
            /\ conversations' = conversations
            /\ interview_qa' = interview_qa
            /\ conversation_memory' = conversation_memory
            /\ candidate_analysis' = candidate_analysis]_vars

(***************************************************************************)
(* Two candidates on one store, each in a browser session of its own and   *)
(* following the script.  The calls of the two sessions interleave; the    *)
(* number of times the store passes from serving one session to serving    *)
(* the other is bounded by the budget of off-script choices.               *)
(***************************************************************************)
TwoEmails == {"ann@example.com", "bob@example.com"}

\* the session of the email is the one being served
Active(email) == last.email \in {"", email}

\* the other session is served from now on
SwitchTo(email) ==
    /\ ~Active(email)
    /\ deviations < MaxDeviations
    /\ deviations' = deviations + 1
    /\ last' = [NoCall EXCEPT !.email = email]
    /\ UNCHANGED <<candidates, conversations, chat_messages, interview_qa,
                   candidate_analysis, conversation_memory, sqlite_sequence,
                   clock, in_flight>>

IntakeTwo(email) == Active(email) /\ SubmitIntake(email)
TurnTwo(email) == Active(email) /\ TurnScripted(email)
ClearTwo(email) == Active(email) /\ ClearConversation(email)

NextTwo ==
    \/ \E email \in TwoEmails : IntakeTwo(email)
    \/ \E email \in TwoEmails : TurnTwo(email)
    \/ \E email \in TwoEmails : ClearTwo(email)
    \/ \E email \in TwoEmails : SwitchTo(email)

SpecTwo == Init /\ [][NextTwo]_vars

\* C19: process_conversation and clear_conversation for one email leave
\* every record keyed by another email as it was: its state record, its
\* transcript, its intro memory, its answered questions and its analysis.
C19_OtherCandidateUntouched ==
    [][\A a \in TwoEmails, b \in TwoEmails :
        (a # b /\ last'.email = a /\ last'.op \in {"process", "clear"}) =>
            /\ rows_of(conversations, b)' = rows_of(conversations, b)
            /\ rows_of(chat_messages, b)' = rows_of(chat_messages, b)
            /\ rows_of(conversation_memory, b)' = rows_of(conversation_memory, b)
            /\ rows_of(interview_qa, b)' = rows_of(interview_qa, b)
            /\ rows_of(candidate_analysis, b)' = rows_of(candidate_analysis, b)]_vars

\* C19 witness: one candidate's conversation has been reset while the
\* other holds a state record, a transcript, an intro memory, five
\* answered questions and an analysis.
C19_Witness ==
    \E a \in TwoEmails, b \in TwoEmails :
        /\ a # b
        /\ last.op = "clear" /\ last.email = a
        /\ rows_of(conversations, a) = <<>>
        /\ PhaseOf(DB, b) = REAL_TIME_ANALYSIS
        /\ rows_of(chat_messages, b) # <<>>
        /\ rows_of(conversation_memory, b) # <<>>
        /\ Len(rows_of(interview_qa, b)) = 5
        /\ rows_of(candidate_analysis, b) # <<>>

\* C20: whenever the phase of a candidate is POST_INTERVIEW_QA or
\* CONVERSATION_TERMINATED a comprehensive analysis is stored for the
\* candidate, also when the analysis generator call failed.
C20_AnalysisExistsAfterScoring ==
    \A e \in Emails :
        PhaseNow(e) \in {POST_INTERVIEW_QA, CONVERSATION_TERMINATED}
            => get_candidate_analysis(DB, e) # <<>>

(***************************************************************************)
(* The question text of the answered-question records.                     *)
(***************************************************************************)
\* the stored record of an email with the highest sequence number
LatestAnswer(email) ==
    CHOOSE r \in {Answers(email)[i] : i \in 1..Len(Answers(email))} :
        \A i \in 1..Len(Answers(email)) :
            Answers(email)[i].question_number <= r.question_number

C22_TurnAppendsInputAndResponse ==
    [][\A e \in Emails :
        (/\ IsTurn(e)
         /\ last'.pre \in {CONVERSATIONAL_INTRO, DYNAMIC_INTERVIEW,
                           REAL_TIME_ANALYSIS, POST_INTERVIEW_QA}
         /\ last'.exc = "") =>
            /\ Len(Transcript(e)') = Len(Transcript(e)) + 2
            /\ SubSeq(Transcript(e)', 1, Len(Transcript(e))) = Transcript(e)
            /\ Transcript(e)'[Len(Transcript(e)) + 1].message_type = "user"
            /\ Transcript(e)'[Len(Transcript(e)) + 1].message_content = last'.input
            /\ Transcript(e)'[Len(Transcript(e)') ].message_type = "assistant"
            /\ Transcript(e)'[Len(Transcript(e)')].message_content = last'.ret]_vars

\* C23: in every state reached by one-at-a-time calls, a candidate in
\* CONVERSATIONAL_INTRO has no answered-question record and at most 2
\* recorded intro exchanges, a candidate in DYNAMIC_INTERVIEW has at most 4
\* answered-question records, and a candidate in REAL_TIME_ANALYSIS,
\* POST_INTERVIEW_QA or CONVERSATION_TERMINATED has exactly 5.
C23_RecordsBoundedByPhase ==
    \A e \in Emails :
        /\ PhaseNow(e) = CONVERSATIONAL_INTRO =>
              /\ Len(Answers(e)) = 0
              /\ Exchanges(e) <= 2
        /\ PhaseNow(e) = DYNAMIC_INTERVIEW => Len(Answers(e)) <= 4
        /\ PhaseNow(e) \in {REAL_TIME_ANALYSIS, POST_INTERVIEW_QA,
                             CONVERSATION_TERMINATED} => Len(Answers(e)) = 5

\* each bound is met: an interview that ended with 5 records was cleared
\* and the candidate is in the intro again with 2 exchanges
C23_Witness ==
    \E e \in Emails :
        /\ PhaseNow(e) = CONVERSATIONAL_INTRO
        /\ Exchanges(e) = 2
        /\ Len(candidates) = 2
        /\ get_candidate_analysis(DB, e) # <<>>

\* the current_question_number of the state record of an email
QuestionNumber(email) ==
    get_conversation_state(DB, email)[1].current_question_number

\* C24: within one interview, from the creation of the state record until
\* clear_conversation, no call of process_conversation decreases
\* current_question_number, and the number is never negative.
C24_QuestionNumberNeverDecreases ==
    [][\A e \in Emails :
        /\ get_conversation_state(DB, e)' # <<>> => QuestionNumber(e)' >= 0
        /\ (/\ IsTurn(e)
            /\ get_conversation_state(DB, e) # <<>>
            /\ get_conversation_state(DB, e)' # <<>>) =>
                QuestionNumber(e)' >= QuestionNumber(e)]_vars

\* the number was raised by the turns of DYNAMIC_INTERVIEW and kept by a
\* turn of REAL_TIME_ANALYSIS
C24_Witness ==
    \E e \in Emails :
        /\ last.op = "process" /\ last.email = e
        /\ last.pre = REAL_TIME_ANALYSIS
        /\ QuestionNumber(e) = 6

(***************************************************************************)
(* The analysis phase with more inputs: the candidate answers 'goodbye'    *)
(* up to REAL_TIME_ANALYSIS and types any of AnalysisInputs there.         *)
(***************************************************************************)
YesDone == <<"y","e","s",","," ","d","o","n","e">>
TellMeMore == <<"T","e","l","l"," ","m","e"," ","m","o","r","e">>
AnalysisInputs == {Goodbye, Hello, YesDone, TellMeMore, IKnow}

TurnAnalysis(email) ==
    \E user_input \in (IF PhaseOf(DB, email) = REAL_TIME_ANALYSIS
                       THEN AnalysisInputs ELSE {DefaultInput}),
       gen \in GenChoices(PhaseOf(DB, email)) :
        ProcessConversation(email, user_input, gen, DefaultGen)

NextAnalysis ==
    \/ \E email \in Emails : SubmitIntake(email)
    \/ \E email \in Emails : TurnAnalysis(email)
    \/ \E email \in Emails : ClearConversation(email)

SpecAnalysis == Init /\ [][NextAnalysis]_vars

\* C25: in REAL_TIME_ANALYSIS an input that contains an end keyword moves
\* the phase to POST_INTERVIEW_QA, also when it contains a continue keyword
\* ('yes, done'); an input that contains no end keyword ('hello', 'Tell me
\* more') leaves the phase REAL_TIME_ANALYSIS and changes no table but the
\* transcript.
C25_EndKeywordsTestedFirst ==
    [][\A e \in Emails :
        (IsTurn(e) /\ PhaseNow(e) = REAL_TIME_ANALYSIS) =>
            /\ last'.exc = ""
            /\ any_keyword_in(end_keywords, last'.input)
                    => PhaseNow(e)' = POST_INTERVIEW_QA
            /\ ~any_keyword_in(end_keywords, last'.input)
                    => /\ PhaseNow(e)' = REAL_TIME_ANALYSIS
                       /\ UNCHANGED <<candidates, conversations, interview_qa,
                                      candidate_analysis, conversation_memory,
                                      sqlite_sequence>>]_vars

\* an input with a continue keyword and an end keyword has been answered
\* in REAL_TIME_ANALYSIS and the phase is POST_INTERVIEW_QA
C25_Witness ==
    \E e \in Emails :
        /\ last.op = "process" /\ last.email = e
        /\ last.pre = REAL_TIME_ANALYSIS
        /\ last.input = YesDone
        /\ any_keyword_in(continue_keywords, YesDone)
        /\ any_keyword_in(end_keywords, YesDone)
        /\ PhaseNow(e) = POST_INTERVIEW_QA

(***************************************************************************)
(* Progress of one interview: the candidate submits the intake and then    *)
(* keeps submitting 'goodbye', which holds a closing keyword of            *)
(* REAL_TIME_ANALYSIS and of POST_INTERVIEW_QA, while each generator call  *)
(* of each turn succeeds, raises or returns a malformed result.  The chat  *)
(* input is shown until the phase is CONVERSATION_TERMINATED.  No handler  *)
(* reads chat_messages, so of the transcript only the most recent          *)
(* MaxLiveTranscript rows are kept; every other table is kept whole.       *)
(***************************************************************************)
MaxLiveTranscript == 2

Recent(rows) ==
    IF Len(rows) <= MaxLiveTranscript THEN rows
    ELSE SubSeq(rows, Len(rows) - MaxLiveTranscript + 1, Len(rows))

\* a turn is later than the turn before it: the clock, kept modulo 2
Later(db) == [db EXCEPT !.clock = 1 - @]

\* the chat input is shown
ChatInputShown(email) == PhaseOf(DB, email) \notin {"", CONVERSATION_TERMINATED}

TurnLive(email) ==
    /\ ChatInputShown(email)
    /\ \E gen \in GenChoices(PhaseOf(DB, email)) :
          LET r == process_conversation(Later(DB), email, DefaultInput, gen)
          IN  /\ \A i \in GenIntents \ r.calls : gen[i] = DefaultGen[i]
              /\ Commit([r.db EXCEPT !.chat_messages = Recent(@)])
              /\ last' = Call("process", email, DefaultInput, gen, DB, r.ret, r.exc)
    /\ UNCHANGED deviations

NextLive ==
    \/ \E email \in Emails : SubmitIntake(email)
    \/ \E email \in Emails : TurnLive(email)

\* The candidate submits an input: the chat input is shown and a call is
\* made at a later time.  Every step of TurnLive is such a step, and no
\* other step of NextLive changes the clock.
Submits == (\E e \in Emails : ChatInputShown(e)) /\ clock' = 1 - clock

\* The candidate keeps going: the intake form is submitted while it is
\* shown, and inputs are submitted for as long as the chat input is shown.
SpecLive ==
    /\ Init /\ [][NextLive]_vars
    /\ WF_vars(\E email \in Emails : SubmitIntake(email))
    /\ WF_clock(Submits)

\* C26: whatever the generator calls do, a candidate who keeps submitting
\* inputs that hold a closing keyword eventually reaches
\* CONVERSATION_TERMINATED.
C26_EventuallyTerminated ==
    <>(\E e \in Emails : PhaseNow(e) = CONVERSATION_TERMINATED)

(***************************************************************************)
(* Overlapping calls.  process_conversation reads the state record         *)
(* (main.py 573) and then works on what it read, each store call on its    *)
(* own connection with its own commit, so another call of the application  *)
(* can run between the read and the rest.  in_flight holds the call that   *)
(* has made the read: BeginTurn is the read, FinishTurn the rest of the    *)
(* call on the store as it is by then.  The candidate types 'goodbye' and  *)
(* the generator answers; each overlapped call counts as a deviation.      *)
(***************************************************************************)
\* process_conversation after its read of the state record
process_conversation_after_read(db, email, user_input, conv_state, gen) ==
    LET r == route_to_handler(save_user_message(db, email, user_input), email,
                              user_input, conv_state, gen)
    IN  IF r.exc = "" /\ r.db.raised # "" THEN Raise(r.db, r.db.raised, r.calls)
        ELSE r

BeginTurn(email) ==
    /\ in_flight = <<>>
    /\ get_conversation_state(DB, email) # <<>>
    /\ deviations < MaxDeviations
    /\ in_flight' = <<[op |-> "process", email |-> email,
                       conv_state |-> get_conversation_state(DB, email)[1]]>>
    /\ deviations' = deviations + 1
    /\ UNCHANGED <<candidates, conversations, chat_messages, interview_qa,
                   candidate_analysis, conversation_memory, sqlite_sequence,
                   last, clock>>

FinishTurn(email) ==
    /\ in_flight # <<>>
    /\ in_flight[1].op = "process" /\ in_flight[1].email = email
    /\ Len(chat_messages) < MaxMessages
    /\ LET r == process_conversation_after_read(DB, email, DefaultInput,
                     in_flight[1].conv_state, DefaultGen)
       IN  /\ Store(r.db)
           /\ last' = Call("finish", email, DefaultInput, DefaultGen, DB, r.ret, r.exc)
    /\ in_flight' = <<>>
    /\ UNCHANGED deviations

TurnWhole(email) == ProcessConversation(email, DefaultInput, DefaultGen, DefaultGen)

NextOverlap ==
    \/ \E email \in Emails : SubmitIntake(email)
    \/ \E email \in Emails : TurnWhole(email)
    \/ \E email \in Emails : BeginTurn(email)
    \/ \E email \in Emails : FinishTurn(email)
    \/ \E email \in Emails : ClearConversation(email)

SpecOverlap == Init /\ [][NextOverlap]_vars

\* the place of a phase on the path of an interview
PhaseRank(phase) ==
    IF phase = CONVERSATIONAL_INTRO THEN 1
    ELSE IF phase = DYNAMIC_INTERVIEW THEN 2
    ELSE IF phase = REAL_TIME_ANALYSIS THEN 3
    ELSE IF phase = POST_INTERVIEW_QA THEN 4
    ELSE IF phase = CONVERSATION_TERMINATED THEN 5
    ELSE 0

\* C27: also when calls of process_conversation for one candidate overlap,
\* no step on an existing state record moves its phase to an earlier phase
\* of the path or decreases its current_question_number.
C27_NoRegressionUnderOverlap ==
    [][\A e \in Emails :
        (get_conversation_state(DB, e) # <<>> /\ get_conversation_state(DB, e)' # <<>>) =>
            /\ PhaseRank(PhaseNow(e)') >= PhaseRank(PhaseNow(e))
            /\ QuestionNumber(e)' >= QuestionNumber(e)]_vars

\* C29: every conversations record has one of the five handled phases, also
\* when clear_conversation runs between the read of a call of
\* process_conversation and the rest of the call.
C29_EveryRecordHasHandledPhase ==
    \A i \in 1..Len(conversations) :
        conversations[i].current_state \in
            {CONVERSATIONAL_INTRO, DYNAMIC_INTERVIEW, REAL_TIME_ANALYSIS,
             POST_INTERVIEW_QA, CONVERSATION_TERMINATED}

(***************************************************************************)
(* The analysis saved by two callers at once.  The turn that stores the    *)
(* fifth answer writes REAL_TIME_ANALYSIS and only then asks the generator *)
(* for the analysis and saves it, so the manager dashboard lists the       *)
(* candidate as completed and without analysis while that turn is still    *)
(* at work.  BeginQuotaTurn is that turn up to the SELECT of               *)
(* save_comprehensive_analysis, FinishQuotaTurn the rest of it.            *)
(***************************************************************************)
\* _handle_dynamic_interview up to its call of generate_comprehensive_analysis:
\* whether the turn is the one that reaches the quota, and the database
\* when the generator is called
dynamic_interview_until_analysis(db, email, user_answer, conv_state, gen) ==
    LET candidate_data == get_candidate_data(db, email)
        current_q_num == conv_state.current_question_number
        previous_qa == get_interview_qa_with_feedback(db, email)
        last_question ==
            IF previous_qa # <<>> THEN previous_qa[Len(previous_qa)].question
            ELSE <<"Introduction question">>
        feedback == analyze_answer_realtime(gen.feedback)
        db1 == save_interview_qa_with_feedback(db, email, current_q_num,
                   last_question, user_answer, feedback.score,
                   feedback.encouraging_feedback)
        answered == get_interview_qa_with_feedback(db1, email)
        up == create_or_update_conversation(db1, email, REAL_TIME_ANALYSIS, NoneStr, NoneInt, NoneInt)
    IN  [quota |-> /\ candidate_data # <<>>
                   /\ is_answer_turn(previous_qa, current_q_num)
                   /\ feedback.kind = "dict"
                   /\ quota_reached(Len(answered))
                   /\ up.exc = "",
         db |-> up.db]

BeginQuotaTurn(email) ==
    /\ in_flight = <<>>
    /\ PhaseOf(DB, email) = DYNAMIC_INTERVIEW
    /\ deviations < MaxDeviations
    /\ LET conv_state == get_conversation_state(DB, email)[1]
           u == dynamic_interview_until_analysis(
                    save_user_message(DB, email, DefaultInput), email,
                    DefaultInput, conv_state, DefaultGen)
       IN  /\ u.quota
           /\ Store(u.db)
           /\ in_flight' = <<[op |-> "save", email |-> email,
                              conv_state |-> conv_state,
                              existing |-> analysis_exists(u.db, email)]>>
           /\ last' = Call("process", email, DefaultInput, DefaultGen, DB, <<>>, "")
    /\ deviations' = deviations + 1

FinishQuotaTurn(email) ==
    /\ in_flight # <<>>
    /\ in_flight[1].op = "save" /\ in_flight[1].email = email
    /\ LET candidate_data == get_candidate_data(DB, email)[1]
           saved == write_comprehensive_analysis(DB, in_flight[1].existing,
                        candidate_data.id, email,
                        analysis_columns(DefaultGen.analysis.data))
           r == _present_comprehensive_analysis(saved, email,
                    in_flight[1].conv_state, DefaultGen.analysis,
                    {"feedback", "analysis"})
       IN  /\ Store(r.db)
           /\ last' = Call("finish", email, DefaultInput, DefaultGen, DB, r.ret, r.exc)
    /\ in_flight' = <<>>
    /\ UNCHANGED deviations

NextSave ==
    \/ \E email \in Emails : SubmitIntake(email)
    \/ \E email \in Emails : TurnWhole(email)
    \/ \E email \in Emails : BeginQuotaTurn(email)
    \/ \E email \in Emails : FinishQuotaTurn(email)
    \/ \E email \in Emails, result \in AnalysisResults : ManagerAnalyze(email, result, DefaultGen)

SpecSave == Init /\ [][NextSave]_vars

\* C28: while the candidate's end-of-quota analysis and the manager
\* dashboard's analysis of the same email are saved at the same time, the
\* email has at most one candidate_analysis record in every state.
C28_OneAnalysisUnderOverlap ==
    \A e \in Emails : Len(rows_of(candidate_analysis, e)) <= 1

\* C30: after any sequence of intakes, turns and resets, a reset followed
\* by a new intake for the same email included, the candidates table holds
\* at most one record per email.
C30_OneCandidatePerEmail ==
    \A e \in Emails : Len(rows_of(candidates, e)) <= 1

====
